---- MODULE Spec2Model ----
(***************************************************************************)
(* ValgrindRunControl (src/plugins/valgrind/valgrindengine.cpp): the run   *)
(* control that launches the Valgrind runner, relays its output to the     *)
(* message sink, classifies its process errors and tracks a progress       *)
(* indicator.                                                              *)
(*                                                                         *)
(* The state is one record per behaviour step, split over the variables    *)
(* below.  Every handler of the class is an operator from state record to  *)
(* state record, translated statement by statement; the actions apply one  *)
(* handler (or one runner signal, delivered to every connected slot) and   *)
(* store the result.  `trace` is a history variable: the ordered list of   *)
(* the effects the handlers had on their collaborators.                    *)
(***************************************************************************)
EXTENDS Integers, Sequences, FiniteSets, TLC

VARIABLES
    m_settings,     \* ValgrindRunControl::m_settings: which settings object
    m_isStopping,   \* ValgrindRunControl::m_isStopping
    m_progress,     \* QFutureInterface<void> m_progress: its state flags
    settings,       \* the values the settings object m_settings points to holds
    conn,           \* signal/slot connections from the runner to this object
    tasks,          \* FutureProgress objects registered by addTimedTask
    runner,         \* what the ValgrindRunner was configured with and asked
    sink,           \* the messages appendMessage() received, in order
    popups,         \* number of IOutputPane::popup(NoModeSwitch) calls
    alerts,         \* number of QApplication::alert calls
    steps,          \* operations and runner signals handled so far
    budget,         \* operations and runner signals this behaviour may handle
    trace,          \* history: every effect, in program order
    mark            \* history: length of trace before the latest operation

vars == <<m_settings, m_isStopping, m_progress, settings, conn, tasks, runner,
          sink, popups, alerts, steps, budget, trace, mark>>

(***************************************************************************)
(* Bounds of the model.                                                    *)
(***************************************************************************)
MaxStarts == 2
MaxSteps == 3
MaxDeepSteps == 4

(***************************************************************************)
(* Value sets the inputs are drawn from.                                   *)
(***************************************************************************)
\* QProcess::ProcessError values a runner reports.
ProcessErrors == {"FailedToStart", "Crashed", "Timedout"}

\* Raw diagnostic texts of a process error.
Diagnostics == {"diag"}

\* (text, format) pairs the runner emits as process output.
Outputs == {[text |-> "out\n", format |-> "StdOutFormat"],
            [text |-> "err\n", format |-> "StdErrFormat"]}

\* m_settings->valgrindExecutable(): unset or a path.
Executables == {"", "/usr/bin/valgrind"}

\* ValgrindBaseSettings::SelfModifyingCodeDetection, and a value outside it.
SmcModes == {"DetectSmcNo", "DetectSmcStackOnly", "DetectSmcEverywhere",
             "DetectSmcEverywhereButFile", "Unrecognized"}

\* What the constructor is handed: no run configuration, one without the
\* Valgrind aspect, one whose aspect's settings are not ValgrindBaseSettings,
\* one with project settings.
RunConfigurations == {"null", "noAspect", "otherSettings", "projectSettings"}

(***************************************************************************)
(* QString helpers.  A format string is a sequence of pieces, the place    *)
(* markers %1, %2 being pieces of their own; arg() replaces markers in one *)
(* pass and never rescans what it substituted.                             *)
(***************************************************************************)
RECURSIVE Join(_)
Join(pieces) ==
    IF pieces = <<>> THEN "" ELSE Head(pieces) \o Join(Tail(pieces))

\* QString::arg(a): replaces every occurrence of the lowest-numbered marker.
QStringArg(fmt, a) ==
    LET lowest == IF \E i \in 1..Len(fmt) : fmt[i] = "%1" THEN "%1" ELSE "%2"
    IN  [i \in 1..Len(fmt) |-> IF fmt[i] = lowest THEN a ELSE fmt[i]]

\* QString::arg(a1, a2): replaces %1 by a1 and %2 by a2 in a single pass.
QStringArg2(fmt, a1, a2) ==
    [i \in 1..Len(fmt) |->
        IF fmt[i] = "%1" THEN a1 ELSE IF fmt[i] = "%2" THEN a2 ELSE fmt[i]]

(***************************************************************************)
(* The state record and the primitive effects on the collaborators.        *)
(***************************************************************************)
Cur ==
    [m_settings |-> m_settings, m_isStopping |-> m_isStopping,
     m_progress |-> m_progress, settings |-> settings, conn |-> conn,
     tasks |-> tasks, runner |-> runner, sink |-> sink, popups |-> popups,
     alerts |-> alerts, steps |-> steps, trace |-> trace]

Store(s) ==
    /\ m_settings' = s.m_settings
    /\ m_isStopping' = s.m_isStopping
    /\ m_progress' = s.m_progress
    /\ settings' = s.settings
    /\ conn' = s.conn
    /\ tasks' = s.tasks
    /\ runner' = s.runner
    /\ sink' = s.sink
    /\ popups' = s.popups
    /\ alerts' = s.alerts
    /\ steps' = s.steps
    /\ trace' = s.trace

Log(s, e) == [s EXCEPT !.trace = Append(@, e)]

\* RunControl::appendMessage(text, format): one more line in the sink.
appendMessage(s, text, format) ==
    Log([s EXCEPT !.sink = Append(@, [text |-> text, format |-> format])],
        [ev |-> "appendMessage", text |-> text, format |-> format,
         at |-> Len(s.sink) + 1])

\* QObject::connect(run, signal, this, slot): one more connection; Qt keeps
\* duplicates.
connect(s, signal) ==
    Log([s EXCEPT !.conn[signal] = @ + 1], [ev |-> "connect", signal |-> signal])

\* QObject::disconnect(run, signal, this, slot): removes every such connection.
disconnect(s, signal) ==
    Log([s EXCEPT !.conn[signal] = 0], [ev |-> "disconnect", signal |-> signal])

\* QFutureInterface::reportStarted: no effect once started, canceled or finished.
reportStarted(s) ==
    Log(IF s.m_progress.started \/ s.m_progress.canceled \/ s.m_progress.finished
        THEN s ELSE [s EXCEPT !.m_progress.started = TRUE],
        [ev |-> "progress", what |-> "reportStarted", by |-> "startEngine"])

\* QFutureInterface::cancel / reportCanceled, called by handler `by`: sets the
\* canceled flag.
progressCancel(s, what, by) ==
    Log([s EXCEPT !.m_progress.canceled = TRUE],
        [ev |-> "progress", what |-> what, by |-> by])

\* QFutureInterface::reportFinished, called by handler `by`: sets the finished
\* flag.
reportFinished(s, by) ==
    Log([s EXCEPT !.m_progress.finished = TRUE],
        [ev |-> "progress", what |-> "reportFinished", by |-> by])

(***************************************************************************)
(* Collaborators whose code is outside valgrindengine.cpp.                 *)
(***************************************************************************)
\* ValgrindPlugin::globalSettings(): the plugin's global settings object.
globalSettings == "global"

\* PluginManager::getObjectByName (cast to IOutputPane): the application
\* output pane is registered under its name for as long as the IDE runs.
getObjectByName(name) == IF name = "AppOutputPane" THEN "AppOutputPane" ELSE "null"

\* The subclass's toolArguments() (pure virtual here): the tool's own flags.
toolArguments == <<"--tool=memcheck">>

\* A runner signal: processOutputReceived(text, format),
\* processErrorReceived(message, error) or finished().
Signal(signal, text, code) == [signal |-> signal, text |-> text, code |-> code]

OutputSignals == {Signal("processOutputReceived", o.text, o.format) : o \in Outputs}
ErrorSignals ==
    {Signal("processErrorReceived", d, e) : d \in Diagnostics, e \in ProcessErrors}
FinishedSignal == Signal("finished", "", "")
RunnerSignals == OutputSignals \cup ErrorSignals \cup {FinishedSignal}

\* ValgrindRunner::start(): what it returns and the signals it emits before it
\* returns.  A spawn that fails is reported through processErrorReceived with
\* FailedToStart (the spec's SpawnFailed failure, "reported via the message
\* sink"); the runner may also declare itself finished.
StartOutcomes ==
    {[ok |-> TRUE, sync |-> <<>>],
     [ok |-> FALSE, sync |-> <<Signal("processErrorReceived", "diag", "FailedToStart")>>],
     [ok |-> FALSE, sync |-> <<Signal("processErrorReceived", "diag", "FailedToStart"),
                               FinishedSignal>>]}

\* What ValgrindRunner::stop() may emit before it returns.
StopSync ==
    {<<>>,
     <<Signal("processErrorReceived", "diag", "Crashed")>>}

(***************************************************************************)
(* ValgrindRunControl::ValgrindRunControl                                  *)
(***************************************************************************)
\* Faulty variant: no fallback to the global settings.
Constructor_NoFallback(runConfiguration) ==
    IF runConfiguration = "projectSettings" THEN "project" ELSE "null"

\* The settings the constructor leaves in m_settings for a run configuration.
Constructor(runConfiguration) ==
    LET fromAspect ==
            IF runConfiguration = "null" THEN "null"
            ELSE IF runConfiguration = "noAspect" THEN "null"
            ELSE IF runConfiguration = "otherSettings" THEN "null"  \* qobject_cast fails
            ELSE "project"
    IN  IF fromAspect = "null" THEN globalSettings ELSE fromAspect

(***************************************************************************)
(* ValgrindRunControl::genericToolArguments                                *)
(***************************************************************************)
\* Faulty variant: two case labels are swapped.
smcCheckValue_Swapped(mode) ==
    CASE mode = "DetectSmcNo" -> "none"
      [] mode = "DetectSmcEverywhere" -> "all-non-file"
      [] mode = "DetectSmcEverywhereButFile" -> "all"
      [] mode = "DetectSmcStackOnly" -> "stack"
      [] OTHER -> "stack"

smcCheckValue(mode) ==
    CASE mode = "DetectSmcNo" -> "none"
      [] mode = "DetectSmcEverywhere" -> "all"
      [] mode = "DetectSmcEverywhereButFile" -> "all-non-file"
      [] mode = "DetectSmcStackOnly" -> "stack"
      [] OTHER -> "stack"

genericToolArguments(s) ==
    IF s.m_settings = "null" THEN <<>>      \* QTC_ASSERT(m_settings, return QStringList())
    ELSE <<"--smc-check=" \o smcCheckValue(s.settings.selfModifyingCodeDetection)>>

(***************************************************************************)
(* The slots.                                                              *)
(***************************************************************************)
\* ValgrindRunControl::receiveProcessOutput
receiveProcessOutput(s, output, format) ==
    appendMessage(Log(s, [ev |-> "slot", fn |-> "receiveProcessOutput"]),
                  output, format)

\* The four lines receiveProcessError chooses from.
msgCouldNotBeStarted(valgrind, message) ==
    Join(QStringArg2(<<"Error: \"", "%1", "\" could not be started: ", "%2">>,
                     valgrind, message)) \o "\n"
msgNoExecutable == "Error: no Valgrind executable set." \o "\n"
msgTerminated == "Process terminated." \o "\n"
msgGeneric(message) == Join(QStringArg(<<"** ", "%1", " **\n">>, message))

\* Faulty variant: the stop-vs-crash branch is missing.
errorText_NoStopBranch(message, error, isStopping, valgrind) ==
    IF error = "FailedToStart" THEN
        IF valgrind # "" THEN msgCouldNotBeStarted(valgrind, message)
        ELSE msgNoExecutable
    ELSE msgGeneric(message)

\* Faulty variant: a crash is benign whatever the stopping flag.
errorText_CrashAlwaysBenign(message, error, isStopping, valgrind) ==
    IF error = "FailedToStart" THEN
        IF valgrind # "" THEN msgCouldNotBeStarted(valgrind, message)
        ELSE msgNoExecutable
    ELSE IF error = "Crashed" THEN msgTerminated
    ELSE msgGeneric(message)

\* Faulty variant: the stopping flag is tested before the failed-to-start case.
errorText_StoppingFirst(message, error, isStopping, valgrind) ==
    IF isStopping /\ error \in {"Crashed", "FailedToStart"} THEN msgTerminated
    ELSE IF error = "FailedToStart" THEN
        IF valgrind # "" THEN msgCouldNotBeStarted(valgrind, message)
        ELSE msgNoExecutable
    ELSE msgGeneric(message)

\* Faulty variant: while stopping, every error but a failed start is benign.
errorText_StoppingAnyError(message, error, isStopping, valgrind) ==
    IF error = "FailedToStart" THEN
        IF valgrind # "" THEN msgCouldNotBeStarted(valgrind, message)
        ELSE msgNoExecutable
    ELSE IF isStopping THEN msgTerminated
    ELSE msgGeneric(message)

\* The text receiveProcessError appends for an error.
errorText(message, error, isStopping, valgrind) ==
    IF error = "FailedToStart" THEN
        IF valgrind # "" THEN msgCouldNotBeStarted(valgrind, message)
        ELSE msgNoExecutable
    ELSE IF isStopping /\ error = "Crashed" THEN msgTerminated
    ELSE msgGeneric(message)

\* Faulty variant: the early return on the stopping flag is missing.
errorPopsUp_Always(isStopping) == TRUE

\* Whether receiveProcessError goes on to pop up the output pane.
errorPopsUp(isStopping) == ~isStopping

\* ValgrindRunControl::receiveProcessError
receiveProcessError(s, message, error) ==
    LET s0 == Log(s, [ev |-> "slot", fn |-> "receiveProcessError",
                      message |-> message, error |-> error,
                      isStopping |-> s.m_isStopping])
        s1 == appendMessage(s0, errorText(message, error, s0.m_isStopping,
                                          s0.settings.valgrindExecutable),
                            "ErrorMessageFormat")
        pane == getObjectByName("AppOutputPane")
    IN  IF errorPopsUp(s1.m_isStopping) /\ pane # "null"
        THEN Log([s1 EXCEPT !.popups = @ + 1],
                 [ev |-> "popup", pane |-> pane, option |-> "NoModeSwitch"])
        ELSE s1

\* Faulty variant: the finished signal stays connected.
runnerFinishedDisconnects_KeepFinished ==
    <<"processOutputReceived", "processOutputReceived">>

\* Faulty variant: the error signal is disconnected in place of the output
\* signal.
runnerFinishedDisconnects_DropError == <<"processErrorReceived", "finished">>

\* Faulty variant: the output signal stays connected.
runnerFinishedDisconnects_KeepOutput == <<"finished", "finished">>

\* The signals runnerFinished disconnects from this object.
runnerFinishedDisconnects == <<"processOutputReceived", "finished">>

\* ValgrindRunControl::runnerFinished
runnerFinished(s) ==
    LET s0 == Log(s, [ev |-> "slot", fn |-> "runnerFinished"])
        s1 == appendMessage(s0, "Analyzing finished." \o "\n", "NormalMessageFormat")
        s2 == Log(s1, [ev |-> "signal", name |-> "finished"])      \* emit finished()
        s3 == reportFinished(s2, "runnerFinished")
        s4 == disconnect(s3, runnerFinishedDisconnects[1])
    IN  disconnect(s4, runnerFinishedDisconnects[2])

\* ValgrindRunControl::handleProgressFinished
handleProgressFinished(s) ==
    Log([s EXCEPT !.alerts = @ + 1], [ev |-> "slot", fn |-> "handleProgressFinished"])

(***************************************************************************)
(* Signal delivery (QMetaObject::activate): the slot runs once for every   *)
(* connection that existed when the signal was emitted and has not been    *)
(* disconnected since.                                                     *)
(***************************************************************************)
Slot(s, sig) ==
    CASE sig.signal = "processOutputReceived" -> receiveProcessOutput(s, sig.text, sig.code)
      [] sig.signal = "processErrorReceived" -> receiveProcessError(s, sig.text, sig.code)
      [] sig.signal = "finished" -> runnerFinished(s)

RECURSIVE Deliver(_, _, _)
Deliver(s, sig, n) ==
    IF n = 0 \/ s.conn[sig.signal] = 0 THEN s
    ELSE Deliver(Slot(s, sig), sig, n - 1)

Emit(s, sig) ==
    LET s0 == Log(s, [ev |-> "emit", sig |-> sig])
    IN  Deliver(s0, sig, s0.conn[sig.signal])

RECURSIVE EmitAll(_, _)
EmitAll(s, sigs) ==
    IF sigs = <<>> THEN s ELSE EmitAll(Emit(s, Head(sigs)), Tail(sigs))

(***************************************************************************)
(* ValgrindRunControl::startEngine.  `ok` is what run->start() returns and *)
(* `sync` the signals the runner emits before start() returns.             *)
(***************************************************************************)
\* Lines 72-78: the progress indicator is registered and started.
startProgress(s) ==
    LET s1 == Log([s EXCEPT !.tasks = @ + 1],
                  [ev |-> "progress", what |-> "addTimedTask", by |-> "startEngine"])
        s2 == Log(s1, [ev |-> "connect", signal |-> "canceled"])
        s3 == Log(s2, [ev |-> "connect", signal |-> "progressFinished"])
    IN  reportStarted(s3)

\* Lines 86-95: the runner is configured (the executable and the argument
\* vector; the other setters pass values this class never reads back).
configureRunner(s) ==
    Log([s EXCEPT !.runner.valgrindExecutable = s.settings.valgrindExecutable,
                  !.runner.valgrindArguments = genericToolArguments(s) \o toolArguments],
        [ev |-> "configure"])

\* Faulty variant: the error signal is not connected.
connectRunner_NoError(s) ==
    connect(connect(s, "processOutputReceived"), "finished")

\* Lines 97-102: the three runner signals are connected.
connectRunner(s) ==
    connect(connect(connect(s, "processOutputReceived"), "processErrorReceived"),
            "finished")

\* Faulty variant: a failed start() is tried once more.
runnerStart_Retry(s, ok, sync) ==
    LET s1 == Log([s EXCEPT !.runner.starts = @ + 1], [ev |-> "runner.start", ok |-> ok])
        s2 == EmitAll(s1, sync)
    IN  IF ok THEN s2
        ELSE Log([s2 EXCEPT !.runner.starts = @ + 1], [ev |-> "runner.start", ok |-> ok])

\* Line 104: run->start(), with what the runner emits inside it.
runnerStart(s, ok, sync) ==
    LET s1 == Log([s EXCEPT !.runner.starts = @ + 1], [ev |-> "runner.start", ok |-> ok])
    IN  EmitAll(s1, sync)

\* Faulty variant: a failed start() returns false without canceling the progress.
startEngineReturn_NoCancel(s, ok) ==
    Log(s, [ev |-> "return", fn |-> "startEngine", value |-> ok])

\* Lines 104-108: the result of start() decides the return value.
startEngineReturn(s, ok) ==
    IF ~ok
    THEN Log(progressCancel(s, "cancel", "startEngine"),
             [ev |-> "return", fn |-> "startEngine", value |-> FALSE])
    ELSE Log(s, [ev |-> "return", fn |-> "startEngine", value |-> TRUE])

\* Faulty variant: a new start clears the stopping flag.
startEngine_ResetsFlag(s, ok, sync) ==
    LET s0 == Log([s EXCEPT !.m_isStopping = FALSE], [ev |-> "call", fn |-> "startEngine"])
        s1 == startProgress(s0)
        s2 == configureRunner(s1)
        s3 == connectRunner(s2)
        s4 == runnerStart(s3, ok, sync)
    IN  startEngineReturn(s4, ok)

\* Faulty variant: the runner's signals are connected after run->start().
startEngine_ConnectAfterStart(s, ok, sync) ==
    LET s0 == Log(s, [ev |-> "call", fn |-> "startEngine"])
        s1 == startProgress(s0)
        s2 == configureRunner(s1)
        s3 == runnerStart(s2, ok, sync)
        s4 == connectRunner(s3)
    IN  startEngineReturn(s4, ok)

\* ValgrindRunControl::startEngine.  `ok` is what run->start() returns and
\* `sync` what the runner emits before it returns.
startEngine(s, ok, sync) ==
    LET s0 == Log(s, [ev |-> "call", fn |-> "startEngine"])      \* emit starting()
        s1 == startProgress(s0)
        s2 == configureRunner(s1)
        s3 == connectRunner(s2)
        s4 == runnerStart(s3, ok, sync)
    IN  startEngineReturn(s4, ok)

\* Faulty variant: termination is requested before the flag is set.
stopEngine_StopFirst(s, sync) ==
    LET s0 == Log(s, [ev |-> "call", fn |-> "stopEngine"])
        s2 == Log([s0 EXCEPT !.runner.stops = @ + 1], [ev |-> "runner.stop"])
        s3 == EmitAll(s2, sync)
        s4 == [s3 EXCEPT !.m_isStopping = TRUE]
    IN  Log(s4, [ev |-> "return", fn |-> "stopEngine"])

(***************************************************************************)
(* ValgrindRunControl::stopEngine.  `sync` is what the runner emits before *)
(* stop() returns.                                                         *)
(***************************************************************************)
stopEngine(s, sync) ==
    LET s0 == Log(s, [ev |-> "call", fn |-> "stopEngine"])
        s1 == [s0 EXCEPT !.m_isStopping = TRUE]
        s2 == Log([s1 EXCEPT !.runner.stops = @ + 1], [ev |-> "runner.stop"])
        s3 == EmitAll(s2, sync)
    IN  Log(s3, [ev |-> "return", fn |-> "stopEngine"])

\* Faulty variant: the handler marks the session as stopping itself.
handleProgressCanceled_SetsFlag(s, reaches, sync) ==
    LET s0 == Log(s, [ev |-> "slot", fn |-> "handleProgressCanceled"])
        s1 == Log([s0 EXCEPT !.m_isStopping = TRUE], [ev |-> "stopTool"])
        s2 == IF reaches THEN stopEngine(s1, sync) ELSE s1
        s3 == progressCancel(s2, "reportCanceled", "handleProgressCanceled")
    IN  reportFinished(s3, "handleProgressCanceled")

(***************************************************************************)
(* ValgrindRunControl::handleProgressCanceled.  AnalyzerManager::stopTool  *)
(* stops the current tool: `reaches` tells whether that is this run        *)
(* control, whose stopEngine() then runs.                                  *)
(***************************************************************************)
handleProgressCanceled(s, reaches, sync) ==
    LET s0 == Log(s, [ev |-> "slot", fn |-> "handleProgressCanceled"])
        s1 == Log(s0, [ev |-> "stopTool"])
        s2 == IF reaches THEN stopEngine(s1, sync) ELSE s1
        s3 == progressCancel(s2, "reportCanceled", "handleProgressCanceled")
    IN  reportFinished(s3, "handleProgressCanceled")

(***************************************************************************)
(* The state machine.                                                      *)
(***************************************************************************)
\* The state after the constructor, for a run configuration among `configs`
\* whose settings hold an executable among `exes` and a mode among `modes`.
Constructed(configs, exes, modes, n) ==
    /\ \E runConfiguration \in configs :
           m_settings = Constructor(runConfiguration)
    /\ m_isStopping = FALSE
    /\ m_progress = [started |-> FALSE, canceled |-> FALSE, finished |-> FALSE]
    /\ \E exe \in exes, mode \in modes :
           settings = [valgrindExecutable |-> exe, selfModifyingCodeDetection |-> mode]
    /\ conn = [sig \in {"processOutputReceived", "processErrorReceived", "finished"} |-> 0]
    /\ tasks = 0
    /\ runner = [valgrindExecutable |-> "", valgrindArguments |-> <<>>,
                 starts |-> 0, stops |-> 0]
    /\ sink = <<>>
    /\ popups = 0
    /\ alerts = 0
    /\ steps = 0
    /\ budget = n
    /\ trace = <<>>
    /\ mark = 0

Init == Constructed(RunConfigurations, Executables, SmcModes, MaxSteps)

\* One configuration (project settings, the default mode), followed for one
\* more operation.
InitDeep ==
    Constructed({"projectSettings"}, {"/usr/bin/valgrind"}, {"DetectSmcStackOnly"},
                MaxDeepSteps)

Step(s) ==
    /\ Store([s EXCEPT !.steps = @ + 1])
    /\ mark' = Len(trace)
    /\ UNCHANGED budget

\* The caller starts the run control (AnalyzerRunControl::start).
StartEngine ==
    /\ steps < budget
    /\ tasks < MaxStarts
    /\ \E o \in StartOutcomes : Step(startEngine(Cur, o.ok, o.sync))

\* The caller stops the run control (AnalyzerRunControl::stop).
StopEngine ==
    /\ steps < budget
    /\ tasks > 0
    /\ \E sync \in StopSync : Step(stopEngine(Cur, sync))

\* The runner emits a signal from the event loop.
RunnerEmit ==
    /\ steps < budget
    /\ runner.starts > 0
    /\ \E sig \in RunnerSignals : Step(Emit(Cur, sig))

\* The handleProgressCanceled invocations so far.
Cancellations ==
    Cardinality({i \in DOMAIN trace : /\ trace[i].ev = "slot"
                                      /\ trace[i].fn = "handleProgressCanceled"})

\* A progress indicator's canceled signal fires: once per indicator at most.
ProgressCanceled ==
    /\ steps < budget
    /\ tasks > 0
    /\ Cancellations < tasks
    /\ \E reaches \in BOOLEAN, sync \in StopSync :
           /\ ~reaches => sync = <<>>
           /\ Step(handleProgressCanceled(Cur, reaches, sync))

\* A progress indicator's finished signal fires.
ProgressFinished ==
    /\ steps < budget
    /\ tasks > 0
    /\ m_progress.finished
    /\ alerts < tasks
    /\ Step(handleProgressFinished(Cur))

Next ==
    \/ StartEngine
    \/ StopEngine
    \/ RunnerEmit
    \/ ProgressCanceled
    \/ ProgressFinished

Spec == Init /\ [][Next]_vars

SpecDeep == InitDeep /\ [][Next]_vars

(***************************************************************************)
(* Reading the history.                                                    *)
(***************************************************************************)
Events == DOMAIN trace

\* The events of the latest operation.  Every event is among them in the state
\* that follows the operation that logged it, and trace and sink only grow: a
\* formula about the latest events that holds in every reachable state holds
\* of every event of every behaviour.
Latest == (mark + 1)..Len(trace)

IsCall(i, fn) == trace[i].ev = "call" /\ trace[i].fn = fn
IsSlot(i, fn) == trace[i].ev = "slot" /\ trace[i].fn = fn
IsReturn(i, fn) == trace[i].ev = "return" /\ trace[i].fn = fn
IsEmit(i, signal) == trace[i].ev = "emit" /\ trace[i].sig.signal = signal
IsProgress(i, what) == trace[i].ev = "progress" /\ trace[i].what = what

\* The messages the slot invocation logged at i appended first thing: the line
\* of the sink its appendMessage wrote, if it called appendMessage.
AppendedBy(i) ==
    IF i < Len(trace) /\ trace[i + 1].ev = "appendMessage"
    THEN <<sink[trace[i + 1].at]>>
    ELSE <<>>

ErrorLine(text) == [text |-> text, format |-> "ErrorMessageFormat"]

\* stopEngine() was entered before event i.
StopCalledBefore(i) == \E j \in 1..(i - 1) : IsCall(j, "stopEngine")

\* The startEngine() call that event i lies in or follows.
LastStartBefore(i) ==
    LET calls == {j \in 1..i : IsCall(j, "startEngine")}
    IN  CHOOSE j \in calls : \A k \in calls : k <= j

(***************************************************************************)
(* C1: once stopEngine() has been called, a receiveProcessError(msg,       *)
(* Crashed) callback appends the "Process terminated." line in error       *)
(* format, never the generic "** msg **" line.                             *)
(***************************************************************************)
C1_StopThenCrashIsBenign ==
    \A i \in Latest :
        (IsSlot(i, "receiveProcessError") /\ trace[i].error = "Crashed"
            /\ StopCalledBefore(i))
        => AppendedBy(i) = <<ErrorLine("Process terminated.\n")>>

\* A crash callback has run after stopEngine(), delivered from the event loop.
C1_Witness ==
    \E i \in Events :
        /\ IsSlot(i, "receiveProcessError") /\ trace[i].error = "Crashed"
        /\ \E j \in 1..(i - 1) : IsReturn(j, "stopEngine")

(***************************************************************************)
(* C2: a receiveProcessError(msg, Crashed) callback that runs while the    *)
(* stopping flag is false appends "** msg **" in error format, msg         *)
(* unchanged, and not the "Process terminated." line.                      *)
(***************************************************************************)
C2_CrashWithoutStopIsGeneric ==
    \A i \in Latest :
        (IsSlot(i, "receiveProcessError") /\ trace[i].error = "Crashed"
            /\ ~trace[i].isStopping)
        => /\ AppendedBy(i) = <<ErrorLine("** " \o trace[i].message \o " **\n")>>
           /\ AppendedBy(i) # <<ErrorLine("Process terminated.\n")>>

\* A crash callback has run with the flag false.
C2_Witness ==
    \E i \in Events :
        /\ IsSlot(i, "receiveProcessError") /\ trace[i].error = "Crashed"
        /\ ~trace[i].isStopping
        /\ ~m_isStopping

(***************************************************************************)
(* C3: a FailedToStart callback appends "no Valgrind executable set" when  *)
(* the configured executable path is empty and the "could not be started"  *)
(* line with the path and the reason otherwise, whether or not             *)
(* stopEngine() was called before.                                         *)
(***************************************************************************)
C3_FailedToStartClassification ==
    \A i \in Latest :
        (IsSlot(i, "receiveProcessError") /\ trace[i].error = "FailedToStart")
        => AppendedBy(i) =
             IF settings.valgrindExecutable = ""
             THEN <<ErrorLine("Error: no Valgrind executable set.\n")>>
             ELSE <<ErrorLine("Error: \"" \o settings.valgrindExecutable
                              \o "\" could not be started: " \o trace[i].message
                              \o "\n")>>

\* A FailedToStart callback has run with the stopping flag set.
C3_Witness ==
    \E i \in Events :
        /\ IsSlot(i, "receiveProcessError") /\ trace[i].error = "FailedToStart"
        /\ trace[i].isStopping

(***************************************************************************)
(* C4: startEngine() returns false and cancels the progress indicator when *)
(* the runner's start() fails; when start() succeeds it returns true and   *)
(* does not cancel the progress indicator.                                 *)
(***************************************************************************)
C4_StartResult ==
    \A r \in Latest :
        IsReturn(r, "startEngine")
        => LET c == LastStartBefore(r)
               spawns == {j \in c..r : trace[j].ev = "runner.start"}
               cancels == {j \in c..r : IsProgress(j, "cancel")}
           IN  /\ \A j \in spawns : trace[r].value = trace[j].ok
               /\ spawns # {}
               /\ trace[r].value = FALSE => (cancels # {} /\ m_progress.canceled)
               /\ trace[r].value = TRUE => cancels = {}

\* One startEngine() has returned false and another has returned true.
C4_Witness ==
    /\ \E r \in Events : IsReturn(r, "startEngine") /\ trace[r].value = FALSE
    /\ \E r \in Events : IsReturn(r, "startEngine") /\ trace[r].value = TRUE

\* The "Analyzing finished." line, and runnerFinished's progress report.
FinishedLineAt(i) ==
    trace[i].ev = "appendMessage" /\ trace[i].text = "Analyzing finished.\n"

FinishedReportAt(i) ==
    IsProgress(i, "reportFinished") /\ trace[i].by = "runnerFinished"

(***************************************************************************)
(* C5: after runnerFinished has run once, a second finished signal from    *)
(* the runner appends no second "Analyzing finished." line and reports no  *)
(* second progress completion: between two "Analyzing finished." lines,    *)
(* and between two reportFinished calls of runnerFinished, lies a          *)
(* startEngine() call.                                                     *)
(***************************************************************************)
C5_FinishedOncePerStart ==
    \A j \in Latest :
        /\ FinishedLineAt(j)
           => \A i \in 1..(j - 1) :
                  FinishedLineAt(i) => \E k \in i..j : IsCall(k, "startEngine")
        /\ FinishedReportAt(j)
           => \A i \in 1..(j - 1) :
                  FinishedReportAt(i) => \E k \in i..j : IsCall(k, "startEngine")

\* The runner has emitted finished twice after the same startEngine(), and the
\* first emission ran runnerFinished.
C5_Witness ==
    \E i, j \in Events :
        /\ i < j /\ IsEmit(i, "finished") /\ IsEmit(j, "finished")
        /\ IsSlot(i + 1, "runnerFinished")
        /\ ~\E k \in i..j : IsCall(k, "startEngine")

(***************************************************************************)
(* Delivery of one emitted signal: the events that follow the emission and *)
(* belong to the slot invocations it caused.                               *)
(***************************************************************************)
SlotOf(signal) ==
    CASE signal = "processOutputReceived" -> "receiveProcessOutput"
      [] signal = "processErrorReceived" -> "receiveProcessError"
      [] signal = "finished" -> "runnerFinished"

InDelivery(i, k) ==
    \/ trace[k].ev \in {"appendMessage", "popup"}
    \/ IsSlot(k, SlotOf(trace[i].sig.signal))

RECURSIVE DeliveryEnd(_, _)
DeliveryEnd(i, j) ==
    IF j < Len(trace) /\ InDelivery(i, j + 1) THEN DeliveryEnd(i, j + 1) ELSE j

DeliveryOf(i) == (i + 1)..DeliveryEnd(i, i)

\* The appendMessage events the emission at i caused.
AppendsOf(i) == {j \in DeliveryOf(i) : trace[j].ev = "appendMessage"}

\* The elements f[i] for i in the set S of indices, in ascending order.
RECURSIVE Ascending(_, _)
Ascending(S, f) ==
    IF S = {} THEN <<>>
    ELSE LET m == CHOOSE x \in S : \A y \in S : x <= y
         IN  <<f[m]>> \o Ascending(S \ {m}, f)

\* Event j appended an error-format line.
ErrorAppendAt(j) ==
    /\ trace[j].ev = "appendMessage"
    /\ sink[trace[j].at].format = "ErrorMessageFormat"

(***************************************************************************)
(* C6: every process error the runner delivers results in exactly one      *)
(* appendMessage call, in error format, whichever branch classifies it and *)
(* whatever the stopping flag is.                                          *)
(***************************************************************************)
C6_ExactlyOneLinePerError ==
    \A i \in Events :
        IsEmit(i, "processErrorReceived")
        => /\ Cardinality(AppendsOf(i)) = 1
           /\ \A j \in AppendsOf(i) : sink[trace[j].at].format = "ErrorMessageFormat"

RunningAfter(r) ==
    {j \in (r + 1)..Len(trace) :
        \A k \in (r + 1)..j :
            ~IsSlot(k, "runnerFinished") /\ ~IsCall(k, "startEngine")}

EmittedPairs(S) ==
    Ascending({j \in S : IsEmit(j, "processOutputReceived")},
              [j \in S |-> [text |-> trace[j].sig.text, format |-> trace[j].sig.code]])

RelayedPairs(S) ==
    Ascending({j \in S : trace[j].ev = "appendMessage"
                         /\ IsSlot(j - 1, "receiveProcessOutput")},
              [j \in S |-> sink[trace[j].at]])

(***************************************************************************)
(* C8: between a startEngine() that returned true and the finished         *)
(* callback, the (text, format) pairs receiveProcessOutput appends are the *)
(* pairs the runner emitted, in the same order, none dropped, duplicated   *)
(* or altered; also for output that arrives after stopEngine().            *)
(***************************************************************************)
C8_OutputRelayedVerbatim ==
    \A r \in Events :
        (IsReturn(r, "startEngine") /\ trace[r].value = TRUE)
        => RelayedPairs(RunningAfter(r)) = EmittedPairs(RunningAfter(r))

\* The fixed table of --smc-check tokens.
SmcToken ==
    [mode \in SmcModes |->
        IF mode = "DetectSmcNo" THEN "none"
        ELSE IF mode = "DetectSmcEverywhere" THEN "all"
        ELSE IF mode = "DetectSmcEverywhereButFile" THEN "all-non-file"
        ELSE "stack"]

(***************************************************************************)
(* C9: for every value of the self-modifying-code detection setting the    *)
(* runner is handed genericToolArguments() = <<"--smc-check=" + token>>    *)
(* (followed by the tool's own arguments), the token being none, all,      *)
(* all-non-file or stack by the fixed table, and stack for any other       *)
(* value.                                                                  *)
(***************************************************************************)
C9_SmcCheckTable ==
    tasks > 0
    => /\ Len(runner.valgrindArguments) = 1 + Len(toolArguments)
       /\ SubSeq(runner.valgrindArguments, 1, 1)
            = <<"--smc-check=" \o SmcToken[settings.selfModifyingCodeDetection]>>
       /\ SubSeq(runner.valgrindArguments, 2, Len(runner.valgrindArguments))
            = toolArguments

\* startEngine() has configured the runner under an unrecognized setting value.
C9_Witness ==
    /\ tasks > 0
    /\ settings.selfModifyingCodeDetection = "Unrecognized"
    /\ runner.valgrindArguments # <<>>

(***************************************************************************)
(* C10: no retry: every startEngine() call issues exactly one spawn        *)
(* attempt on the runner, and no spawn attempt is issued outside a         *)
(* startEngine() call, in particular by no callback handler.               *)
(***************************************************************************)
C10_OneSpawnPerStart ==
    /\ \A r \in Latest :
           IsReturn(r, "startEngine")
           => Cardinality({j \in LastStartBefore(r)..r : trace[j].ev = "runner.start"}) = 1
    /\ \A j \in Latest :
           trace[j].ev = "runner.start"
           => /\ \E c \in 1..j : IsCall(c, "startEngine")
              /\ ~\E k \in LastStartBefore(j)..j : trace[k].ev \in {"return", "slot"}
    /\ runner.starts = Cardinality({c \in Events : IsCall(c, "startEngine")})

\* After a startEngine() that returned false, callbacks have run and no other
\* startEngine() was called.
C10_Witness ==
    \E r \in Events :
        /\ IsReturn(r, "startEngine") /\ trace[r].value = FALSE
        /\ \E j \in (r + 1)..Len(trace) : trace[j].ev = "slot"
        /\ runner.starts = 1

(***************************************************************************)
(* C11: the progress indicator of a session is terminated exactly once:    *)
(* between two invocations of progress reportFinished lies a startEngine() *)
(* call, whichever handlers invoke it, also when the user cancels the      *)
(* progress indicator and the runner's finished callback arrives later.    *)
(***************************************************************************)
C11_ReportFinishedOncePerSession ==
    \A j \in Latest :
        IsProgress(j, "reportFinished")
        => \A i \in 1..(j - 1) :
               IsProgress(i, "reportFinished")
               => \E c \in (i + 1)..(j - 1) : IsCall(c, "startEngine")

(***************************************************************************)
(* C12: an error callback pops up the output pane if and only if the       *)
(* stopping flag is false when it runs: after stopEngine() has been called *)
(* no error callback of any kind pops up the pane; before it, every error  *)
(* callback requests the popup, with the NoModeSwitch option, after it has *)
(* appended its message.  Nothing else pops up the pane.                   *)
(***************************************************************************)
C12_PopupIffNotStopping ==
    /\ \A i \in Latest :
           IsSlot(i, "receiveProcessError")
           => /\ trace[i].isStopping = StopCalledBefore(i)
              /\ i < Len(trace) /\ trace[i + 1].ev = "appendMessage"
              /\ ~trace[i].isStopping
                 <=> /\ i + 1 < Len(trace)
                     /\ trace[i + 2].ev = "popup"
                     /\ trace[i + 2].option = "NoModeSwitch"
    /\ \A p \in Latest :
           trace[p].ev = "popup"
           => /\ p > 2
              /\ IsSlot(p - 2, "receiveProcessError")
              /\ trace[p - 1].ev = "appendMessage"
              /\ ~StopCalledBefore(p)
    /\ popups = Cardinality({p \in Events : trace[p].ev = "popup"})

\* Error callbacks of all three kinds have run, one before stopEngine() and
\* two after it, and the pane was popped up once.
C12_Witness ==
    /\ popups = 1
    /\ \E i, j, k \in Events :
           /\ i < j /\ j < k
           /\ IsSlot(i, "receiveProcessError") /\ ~trace[i].isStopping
           /\ IsSlot(j, "receiveProcessError") /\ trace[j].isStopping
           /\ IsSlot(k, "receiveProcessError") /\ trace[k].isStopping
           /\ {trace[i].error, trace[j].error, trace[k].error} = ProcessErrors

(***************************************************************************)
(* C13: the line an error callback appends is a total function of the      *)
(* error kind, the stopping flag and whether an executable is configured,  *)
(* by the four rows in priority order: failed-to-start without executable; *)
(* failed-to-start with executable; crashed while stopping; otherwise the  *)
(* generic line wrapping the diagnostic, also for an error that is neither *)
(* failed-to-start nor crashed while the stopping flag is set.  Each       *)
(* callback appends exactly one of the four.                               *)
(***************************************************************************)
C13_ClassificationTable ==
    /\ \A i \in Latest :
           IsSlot(i, "receiveProcessError")
           => LET exe == settings.valgrindExecutable
                  row == CASE trace[i].error = "FailedToStart" /\ exe = "" -> 1
                           [] trace[i].error = "FailedToStart" /\ exe # "" -> 2
                           [] trace[i].error = "Crashed" /\ trace[i].isStopping -> 3
                           [] OTHER -> 4
                  text == CASE row = 1 -> "Error: no Valgrind executable set.\n"
                            [] row = 2 -> "Error: \"" \o exe \o "\" could not be started: "
                                          \o trace[i].message \o "\n"
                            [] row = 3 -> "Process terminated.\n"
                            [] row = 4 -> "** " \o trace[i].message \o " **\n"
              IN  /\ AppendedBy(i) = <<ErrorLine(text)>>
                  /\ trace[i].isStopping = m_isStopping
                  /\ i + 1 < Len(trace) => trace[i + 2].ev # "appendMessage"
    /\ \A error \in ProcessErrors, isStopping \in BOOLEAN, exe \in Executables,
          message \in Diagnostics :
           Cardinality({text \in {msgNoExecutable, msgCouldNotBeStarted(exe, message),
                                  msgTerminated, msgGeneric(message)} :
                            text = errorText(message, error, isStopping, exe)}) = 1

\* With the stopping flag set, a timed-out error has been given the generic
\* line and a crash the benign line.
C13_Witness ==
    /\ m_isStopping
    /\ \E i, j \in Events :
           /\ IsSlot(i, "receiveProcessError") /\ trace[i].isStopping
           /\ trace[i].error = "Timedout"
           /\ AppendedBy(i) = <<ErrorLine("** diag **\n")>>
           /\ IsSlot(j, "receiveProcessError") /\ trace[j].isStopping
           /\ trace[j].error = "Crashed"
           /\ AppendedBy(j) = <<ErrorLine("Process terminated.\n")>>

\* runnerFinished has run before event e.
FinishedBefore(e) == {f \in 1..(e - 1) : IsSlot(f, "runnerFinished")}

\* The output emission at e found a receiveProcessOutput slot that appended.
OutputAppended(e) ==
    \/ AppendsOf(e) # {}
    \/ \E k \in (e + 1)..Len(trace) : IsSlot(k, "receiveProcessOutput")

(***************************************************************************)
(* C14 as stated: once runnerFinished has run, no later emission of        *)
(* processOutputReceived by the runner appends anything to the sink.       *)
(***************************************************************************)
C14_NoOutputAfterFinished ==
    \A e \in Latest :
        (IsEmit(e, "processOutputReceived") /\ FinishedBefore(e) # {})
        => ~OutputAppended(e)

(***************************************************************************)
(* C14, amended: on the runner's finished signal runnerFinished appends    *)
(* the "Analyzing finished." line, emits finished(), reports progress      *)
(* finished and disconnects the output and finished signals, in that       *)
(* order; after it has run, no processOutputReceived emission appends      *)
(* anything to the sink until startEngine() is called again.               *)
(***************************************************************************)
C14_NoOutputAfterFinishedUntilRestart ==
    /\ \A f \in Latest :
           IsSlot(f, "runnerFinished")
           => /\ f + 5 <= Len(trace)
              /\ AppendedBy(f) = <<[text |-> "Analyzing finished.\n",
                                    format |-> "NormalMessageFormat"]>>
              /\ trace[f + 2] = [ev |-> "signal", name |-> "finished"]
              /\ FinishedReportAt(f + 3)
              /\ trace[f + 4] = [ev |-> "disconnect", signal |-> "processOutputReceived"]
              /\ trace[f + 5] = [ev |-> "disconnect", signal |-> "finished"]
    /\ \A e \in Latest :
           (/\ IsEmit(e, "processOutputReceived")
            /\ \E f \in FinishedBefore(e) :
                   ~\E c \in f..e : IsCall(c, "startEngine"))
           => ~OutputAppended(e) /\ conn["processOutputReceived"] = 0

\* The runner emitted output after runnerFinished had run in the same session,
\* and the sink holds the "Analyzing finished." line only.
C14_Witness ==
    /\ sink = <<[text |-> "Analyzing finished.\n", format |-> "NormalMessageFormat"]>>
    /\ m_progress.finished
    /\ \E e \in Events :
           /\ IsEmit(e, "processOutputReceived")
           /\ \E f \in FinishedBefore(e) : ~\E c \in f..e : IsCall(c, "startEngine")

(***************************************************************************)
(* C15: the stopping flag is false at construction, is set by stopEngine() *)
(* only, before stopEngine() requests termination from the runner, and is  *)
(* never reset: it is true exactly when stopEngine() has been entered, and *)
(* every error callback delivered during or after the runner's stop(),     *)
(* also one delivered from inside stop(), observes it as true.             *)
(***************************************************************************)
C15_StoppingFlagMonotone ==
    /\ m_isStopping <=> \E c \in Events : IsCall(c, "stopEngine")
    /\ \A k \in Latest :
           trace[k].ev = "runner.stop" => k > 1 /\ IsCall(k - 1, "stopEngine")
    /\ \A i \in Latest :
           IsSlot(i, "receiveProcessError")
           => (trace[i].isStopping <=> \E k \in 1..(i - 1) : trace[k].ev = "runner.stop")

\* An error callback has run inside the runner's stop(), before stopEngine()
\* returned, after error callbacks that saw the flag still false.
C15_Witness ==
    \E i \in Events :
        /\ i > 3
        /\ IsSlot(i, "receiveProcessError") /\ trace[i].isStopping
        /\ trace[i - 1].ev = "emit"
        /\ trace[i - 2].ev = "runner.stop"
        /\ \E j \in 1..(i - 1) : IsSlot(j, "receiveProcessError") /\ ~trace[j].isStopping

\* The events startEngine() logs before it calls run->start().
BeforeSpawn ==
    <<[ev |-> "call", fn |-> "startEngine"],
      [ev |-> "progress", what |-> "addTimedTask", by |-> "startEngine"],
      [ev |-> "connect", signal |-> "canceled"],
      [ev |-> "connect", signal |-> "progressFinished"],
      [ev |-> "progress", what |-> "reportStarted", by |-> "startEngine"],
      [ev |-> "configure"],
      [ev |-> "connect", signal |-> "processOutputReceived"],
      [ev |-> "connect", signal |-> "processErrorReceived"],
      [ev |-> "connect", signal |-> "finished"]>>

\* The events from the run->start() at r up to startEngine()'s return.
InsideStart(r) ==
    {j \in r..Len(trace) : \A k \in r..j : ~IsReturn(k, "startEngine")}

(***************************************************************************)
(* C16: startEngine() has configured the runner before it attempts the     *)
(* spawn: the runner is handed genericToolArguments() followed by          *)
(* toolArguments(); the progress indicator has been registered and         *)
(* started and the output, error and finished signals of the runner have   *)
(* been connected before run->start() is called, so that every error or    *)
(* finished signal the runner emits from inside start() reaches its slot.  *)
(***************************************************************************)
C16_ConfiguredBeforeSpawn ==
    /\ \A r \in Latest :
           trace[r].ev = "runner.start"
           => /\ r > Len(BeforeSpawn)
              /\ SubSeq(trace, r - Len(BeforeSpawn), r - 1) = BeforeSpawn
              /\ \A e \in InsideStart(r) :
                     trace[e].ev = "emit"
                     => /\ e < Len(trace)
                        /\ IsSlot(e + 1, SlotOf(trace[e].sig.signal))
                        /\ AppendedBy(e + 1) # <<>>
    /\ tasks > 0
       => /\ m_progress.started
          /\ runner.valgrindArguments =
               <<"--smc-check=" \o SmcToken[settings.selfModifyingCodeDetection],
                 "--tool=memcheck">>
          /\ runner.valgrindExecutable = settings.valgrindExecutable

\* The first startEngine() failed, and the error and the finished signal the
\* runner emitted inside start() have both left their line in the sink.
C16_Witness ==
    /\ runner.starts = 1
    /\ \E r \in Events : IsReturn(r, "startEngine") /\ trace[r].value = FALSE
    /\ Len(sink) = 2
    /\ sink[1].format = "ErrorMessageFormat"
    /\ sink[2] = [text |-> "Analyzing finished.\n", format |-> "NormalMessageFormat"]
    /\ steps = 1

\* Event i is a place where the settings pointer is dereferenced: lines 88 and
\* 136 in startEngine(), line 187 in receiveProcessError().
ReadsSettings(i) ==
    \/ trace[i].ev = "configure"
    \/ IsSlot(i, "receiveProcessError") /\ trace[i].error = "FailedToStart"

(***************************************************************************)
(* C17: a settings object is available whenever it is read: the            *)
(* constructor takes the Valgrind settings of the run configuration when   *)
(* the configuration supplies them and the global settings otherwise, so   *)
(* that m_settings is non-null wherever startEngine(),                     *)
(* genericToolArguments() or receiveProcessError() dereferences it, and    *)
(* genericToolArguments() never returns the empty list of its assertion.   *)
(***************************************************************************)
C17_SettingsAvailable ==
    /\ \A runConfiguration \in RunConfigurations :
           Constructor(runConfiguration) =
               IF runConfiguration = "projectSettings" THEN "project" ELSE globalSettings
    /\ m_settings \in {Constructor(runConfiguration) :
                           runConfiguration \in RunConfigurations}
    /\ \A i \in Latest : ReadsSettings(i) => m_settings # "null"
    /\ tasks > 0 => /\ m_settings # "null"
                    /\ genericToolArguments(Cur) # <<>>
                    /\ Len(runner.valgrindArguments) = 1 + Len(toolArguments)

\* A run control constructed without settings of its own has configured the
\* runner and classified a failed start.
C17_Witness ==
    /\ m_settings = globalSettings
    /\ tasks > 0
    /\ \E i, j \in Events :
           /\ trace[i].ev = "configure"
           /\ IsSlot(j, "receiveProcessError") /\ trace[j].error = "FailedToStart"

(***************************************************************************)
(* C18: handleProgressCanceled requests the tool stop, then reports the    *)
(* progress canceled, then reports it finished, in that order.  It sets    *)
(* the stopping flag and appends messages only through the stopEngine()    *)
(* its stop request reaches: when the request does not reach stopEngine(), *)
(* the flag and the sink are as they were.                                 *)
(***************************************************************************)
C18_CancelStopsThenReports ==
    \A h \in Latest :
        IsSlot(h, "handleProgressCanceled")
        => LET n == Len(trace)
           IN  /\ h + 3 <= n
               /\ trace[h + 1].ev = "stopTool"
               /\ trace[n - 1] = [ev |-> "progress", what |-> "reportCanceled",
                                  by |-> "handleProgressCanceled"]
               /\ trace[n] = [ev |-> "progress", what |-> "reportFinished",
                              by |-> "handleProgressCanceled"]
               /\ \/ h + 3 = n
                  \/ IsCall(h + 2, "stopEngine") /\ IsReturn(n - 2, "stopEngine")
               /\ h + 3 = n => (m_isStopping <=> StopCalledBefore(h))
               /\ \A a \in h..n :
                      trace[a].ev = "appendMessage"
                      => /\ h + 3 < n
                         /\ IsSlot(a - 1, "receiveProcessError")
               /\ m_progress.canceled /\ m_progress.finished

\* The progress of a running session was canceled, the stop request did not
\* reach stopEngine(): the flag is still false and the sink still empty.
C18_Witness ==
    /\ \E h \in Events : IsSlot(h, "handleProgressCanceled")
    /\ ~m_isStopping
    /\ sink = <<>>
    /\ m_progress.canceled /\ m_progress.finished
    /\ runner.stops = 0

\* The startEngine() calls entered before event e.
StartsBefore(e) == {c \in 1..e : IsCall(c, "startEngine")}

\* The receiveProcessError invocations the emission at e caused.
ErrorSlotsOf(e) == {j \in DeliveryOf(e) : IsSlot(j, "receiveProcessError")}

(***************************************************************************)
(* C19: the connection of the runner's error signal survives completion:   *)
(* runnerFinished disconnects the output and the finished signal only, so  *)
(* a process error emitted after the finished callback is still classified *)
(* and appended; and as every startEngine() connects the error signal once *)
(* more and nothing disconnects it, each process error is handled once per *)
(* startEngine() call made so far.                                         *)
(***************************************************************************)
C19_ErrorConnectionSurvives ==
    /\ conn["processErrorReceived"] = Cardinality(StartsBefore(Len(trace)))
    /\ \A d \in Latest :
           trace[d].ev = "disconnect"
           => trace[d].signal \in {"processOutputReceived", "finished"}
    /\ \A e \in Latest :
           IsEmit(e, "processErrorReceived")
           => /\ Cardinality(ErrorSlotsOf(e)) = Cardinality(StartsBefore(e))
              /\ \A j \in ErrorSlotsOf(e) : AppendedBy(j) # <<>>
              /\ Cardinality({a \in AppendsOf(e) : ErrorAppendAt(a)})
                   = Cardinality(StartsBefore(e))

\* After runnerFinished has run and startEngine() has been called a second
\* time, a process error was handled twice.
C19_Witness ==
    \E e \in Events :
        /\ IsEmit(e, "processErrorReceived")
        /\ FinishedBefore(e) # {}
        /\ Cardinality(StartsBefore(e)) = 2
        /\ Cardinality(ErrorSlotsOf(e)) = 2
        /\ conn["processOutputReceived"] = 1

\* runnerFinished ran at f + 1 for the finished signal emitted at f: it
\* appended its line and emitted finished().
FinishedHandled(f) ==
    /\ f + 3 <= Len(trace)
    /\ IsSlot(f + 1, "runnerFinished")
    /\ AppendedBy(f + 1) = <<[text |-> "Analyzing finished.\n",
                              format |-> "NormalMessageFormat"]>>
    /\ trace[f + 3] = [ev |-> "signal", name |-> "finished"]

\* A crash callback at i was classified as the benign termination and did not
\* pop up the pane.
BenignCrash(i) ==
    /\ AppendedBy(i) = <<ErrorLine("Process terminated.\n")>>
    /\ i + 1 < Len(trace) => trace[i + 2].ev # "popup"

(***************************************************************************)
(* C20 as stated, second half: the "Analyzing finished." message is        *)
(* appended and finished() emitted on every finished signal of the runner, *)
(* whatever happened in the session before.                                *)
(***************************************************************************)
C20_EveryFinishedSignalHandled ==
    \A f \in Latest : IsEmit(f, "finished") => FinishedHandled(f)

(***************************************************************************)
(* C20, amended: startEngine() leaves the stopping flag as it was and      *)
(* runnerFinished does not read it: when startEngine() is called again     *)
(* after stopEngine() the flag is still true, and a crash in the new run   *)
(* is classified as "Process terminated." without a popup of the pane; the *)
(* "Analyzing finished." message is appended and finished() emitted on the *)
(* first finished signal of the runner after each startEngine(), whether   *)
(* or not the session was stopped, crashed or failed to start before, and  *)
(* on no later finished signal of the same session.                        *)
(***************************************************************************)
C20_StartKeepsFlagFinishedIgnoresIt ==
    /\ \A c \in Latest :
           IsCall(c, "startEngine") => (m_isStopping <=> StopCalledBefore(c))
    /\ \A i \in Latest :
           (/\ IsSlot(i, "receiveProcessError") /\ trace[i].error = "Crashed"
            /\ StopCalledBefore(i))
           => BenignCrash(i)
    /\ \A f \in Latest :
           IsEmit(f, "finished")
           => LET first == ~\E g \in LastStartBefore(f)..(f - 1) :
                                 IsSlot(g, "runnerFinished")
              IN  IF first THEN FinishedHandled(f)
                  ELSE f = Len(trace) \/ ~IsSlot(f + 1, "runnerFinished")

\* startEngine() was called again after stopEngine(); the new start failed and
\* its finished signal was handled, and a crash of the new run was then
\* classified as the benign termination.
C20_Witness ==
    /\ popups = 0
    /\ m_isStopping
    /\ \E i \in Latest :
           /\ IsSlot(i, "receiveProcessError") /\ trace[i].error = "Crashed"
           /\ BenignCrash(i)
           /\ LET c == LastStartBefore(i)
              IN  /\ StopCalledBefore(c)
                  /\ \E f \in c..i : IsEmit(f, "finished") /\ FinishedHandled(f)
                  /\ \E e \in c..i : /\ IsSlot(e, "receiveProcessError")
                                      /\ trace[e].error = "FailedToStart"

====
